---- MODULE Spec2Model ----
(***************************************************************************)
(* Model of base32::Base32Code (Base32Code.h, Base32Code.cpp) and of the   *)
(* drivers of test_Base32Code.cpp that chain its operations.               *)
(*                                                                         *)
(* A char is modelled by its integer value, a std::string by a sequence of *)
(* chars, a byte buffer by a sequence of integers 0..255.  uint16_t        *)
(* arithmetic is kept modulo 2^16.                                         *)
(***************************************************************************)
EXTENDS Integers, Sequences, FiniteSets, TLC

VARIABLES
    hist,     \* the operations performed so far, in order
    bytes,    \* input sequence handed to Encode
    raw,      \* raw string handed to the constructor
    code,     \* str_ of the Base32Code object (<<>> when none exists)
    thrown,   \* TRUE when the last operation threw std::invalid_argument
    out,      \* the bytes Decode wrote through its output iterator
    dec,      \* Decode's locals (tmp, shift) when its for loop exits
    recode,   \* Str() of Encode applied to the decoded bytes
    arg,      \* argument of a static lookup (Canonical, IsValid, Value, Digit, DecodedSize)
    res       \* result of that lookup

vars == <<hist, bytes, raw, code, thrown, out, dec, recode, arg, res>>

-----------------------------------------------------------------------------
(* Bounds of the explored inputs *)

MaxBytes == 6
MaxRaw == 4
MaxDigits == 10
IntBound == 300
MaxSizeArg == 81

ByteVals == {0, 255, 248, 62}
WideVals == {504, -1, 256}
RawChars == {48, 90, 111, 97, 85, 33, 76}
DigitChars == {48, 90}

BoundedSeq(S, n) == UNION {[1..k -> S] : k \in 0..n}

IntArgs == (0 - IntBound)..IntBound

-----------------------------------------------------------------------------
(* Integer helpers for the C++ operators &, |, <<, >> *)

RECURSIVE Pow2(_)
Pow2(k) == IF k = 0 THEN 1 ELSE 2 * Pow2(k - 1)

RECURSIVE BitAnd(_, _)
BitAnd(a, b) ==
    IF a = 0 \/ b = 0 THEN 0
    ELSE (a % 2) * (b % 2) + 2 * BitAnd(a \div 2, b \div 2)

RECURSIVE BitOr(_, _)
BitOr(a, b) ==
    IF a = 0 THEN b
    ELSE IF b = 0 THEN a
    ELSE (IF a % 2 = 1 \/ b % 2 = 1 THEN 1 ELSE 0) + 2 * BitOr(a \div 2, b \div 2)

Shl(x, k) == x * Pow2(k)
Shr(x, k) == x \div Pow2(k)
U16(x) == x % 65536
U8(x) == x % 256
Abs(x) == IF x < 0 THEN 0 - x ELSE x

\* the low 16 bits of the two's complement representation of an int
Low16(x) == x % 65536

\* conversion of an int to char: char is signed or unsigned, as the build decides
ToChar(v, isSigned) == IF isSigned THEN ((v + 128) % 256) - 128 ELSE v % 256
CharRange(isSigned) == IF isSigned THEN (0 - 128)..127 ELSE 0..255

-----------------------------------------------------------------------------
(* Base32Code *)

InvalidDigit == 0
InvalidValue == 0 - 1
DigitBits == 5
CharBits == 8
Mask == 31

Digits == <<48, 49, 50, 51, 52, 53, 54, 55,
            56, 57, 65, 66, 67, 68, 69, 70,
            71, 72, 74, 75, 77, 78, 80, 81,
            82, 83, 84, 86, 87, 88, 89, 90>>

ToUpper(c) == IF c \in 97..122 THEN c - 32 ELSE c

\* Canonical with 'U' and 'u' left in the switch
CanonicalMut(digit) ==
    CASE digit \in {48, 111, 79} -> 48
      [] digit \in {49, 105, 73, 108, 76} -> 49
      [] digit \in (50..57) \cup ((65..90) \ {73, 76, 79}) -> digit
      [] digit \in (97..122) \ {105, 108, 111} -> ToUpper(digit)
      [] OTHER -> InvalidDigit

Canonical(digit) ==
    CASE digit \in {48, 111, 79} -> 48
      [] digit \in {49, 105, 73, 108, 76} -> 49
      [] digit \in {50, 51, 52, 53, 54, 55, 56, 57,
                    65, 66, 67, 68, 69, 70, 71, 72,
                    74, 75, 77, 78,
                    80, 81, 82, 83, 84,
                    86, 87, 88, 89, 90} -> digit
      [] digit \in {97, 98, 99, 100, 101, 102, 103, 104,
                    106, 107, 109, 110,
                    112, 113, 114, 115, 116,
                    118, 119, 120, 121, 122} -> ToUpper(digit)
      [] OTHER -> InvalidDigit

IsValid(c) == Canonical(c) # InvalidDigit

Digit(value) ==
    IF value < 0 \/ Len(Digits) <= value THEN InvalidDigit ELSE Digits[value + 1]

\* std::find over Digits: the first position holding c, Len(Digits) when absent
RECURSIVE Find(_, _)
Find(c, i) ==
    IF i >= Len(Digits) THEN Len(Digits)
    ELSE IF Digits[i + 1] = c THEN i
    ELSE Find(c, i + 1)

\* Value looking up the digit as given, without canonicalising it
ValueMut(digit) ==
    IF InvalidDigit = digit THEN InvalidValue ELSE Find(digit, 0)

Value(digit) ==
    LET canonical == Canonical(digit)
    IN  IF InvalidDigit = canonical THEN InvalidValue ELSE Find(canonical, 0)

\* the constructor's loop from position k on; s is str_ as canonicalised so far
RECURSIVE CtorLoop(_, _)
CtorLoop(s, k) ==
    IF k > Len(s) THEN [ok |-> TRUE, str |-> s]
    ELSE LET c == Canonical(s[k])
         IN  IF c = InvalidDigit THEN [ok |-> FALSE, str |-> <<>>]
             ELSE CtorLoop([s EXCEPT ![k] = c], k + 1)

\* a constructor that stores the string unchecked
Base32CodeMut(str) == [ok |-> TRUE, str |-> str]

Base32Code(str) == CtorLoop(str, 1)

\* DecodedSize dropping the remainder
DecodedSizeMut(digits) == (digits * DigitBits) \div CharBits

DecodedSize(digits) ==
    LET quot == (digits * DigitBits) \div CharBits
        rem == (digits * DigitBits) % CharBits
    IN  quot + (IF rem # 0 THEN 1 ELSE 0)

\* the do-while of Encode
RECURSIVE EncodeEmit(_)
EncodeEmit(s) ==
    LET d == Digit(Shr(BitAnd(s.tmp, Shl(Mask, s.shift)), s.shift))
        t == [s EXCEPT !.str = Append(s.str, d), !.shift = s.shift - DigitBits]
    IN  IF t.shift > 0 THEN EncodeEmit(t) ELSE t

\* the for loop body of Encode without tmp <<= CharBits()
EncodeByteMut(s, in) ==
    LET t2 == BitAnd(s.tmp, 65280)
        t3 == BitOr(t2, BitAnd(255, Low16(in)))
    IN  EncodeEmit([s EXCEPT !.tmp = t3, !.shift = s.shift + CharBits])

\* one iteration of the for loop of Encode
EncodeByte(s, in) ==
    LET t1 == U16(Shl(s.tmp, CharBits))
        t2 == BitAnd(t1, 65280)
        t3 == BitOr(t2, BitAnd(255, Low16(in)))
    IN  EncodeEmit([s EXCEPT !.tmp = t3, !.shift = s.shift + CharBits])

RECURSIVE EncodeLoop(_, _, _)
EncodeLoop(s, t, k) ==
    IF k > Len(t) THEN s ELSE EncodeLoop(EncodeByte(s, t[k]), t, k + 1)

Encode(t) ==
    IF t = <<>> THEN Base32Code(<<>>)
    ELSE LET s == EncodeLoop([str |-> <<>>, tmp |-> 0, shift |-> 0 - DigitBits], t, 1)
             tmp == U16(Shl(s.tmp, Abs(s.shift)))
         IN  Base32Code(Append(s.str, Digit(BitAnd(tmp, Mask))))

\* the for loop body of Decode writing tmp >> shift before shift -= CharBits()
DecodeDigitMut(s, in) ==
    LET t1 == U16(Shl(s.tmp, DigitBits))
        sh == s.shift + DigitBits
        t2 == BitAnd(t1, 65535 - Mask)
        t3 == BitOr(t2, BitAnd(Mask, Low16(Value(in))))
    IN  IF sh >= CharBits
        THEN [tmp |-> t3, shift |-> sh - CharBits,
              out |-> Append(s.out, U8(Shr(t3, sh)))]
        ELSE [tmp |-> t3, shift |-> sh, out |-> s.out]

\* one iteration of the for loop of Decode
DecodeDigit(s, in) ==
    LET t1 == U16(Shl(s.tmp, DigitBits))
        sh == s.shift + DigitBits
        t2 == BitAnd(t1, 65535 - Mask)
        t3 == BitOr(t2, BitAnd(Mask, Low16(Value(in))))
    IN  IF sh >= CharBits
        THEN [tmp |-> t3, shift |-> sh - CharBits,
              out |-> Append(s.out, U8(Shr(t3, sh - CharBits)))]
        ELSE [tmp |-> t3, shift |-> sh, out |-> s.out]

RECURSIVE DecodeLoop(_, _, _)
DecodeLoop(s, str, k) ==
    IF k > Len(str) THEN s ELSE DecodeLoop(DecodeDigit(s, str[k]), str, k + 1)

\* the tail of Decode without tmp <<= CharBits() - shift
DecodeTailMut(s) ==
    IF s.shift > 0 THEN Append(s.out, U8(s.tmp)) ELSE s.out

\* the tail of Decode, after the for loop
DecodeTail(s) ==
    IF s.shift > 0
    THEN Append(s.out, U8(U16(Shl(s.tmp, CharBits - s.shift))))
    ELSE s.out

Decode(str) ==
    LET s == DecodeLoop([tmp |-> 0, shift |-> 0, out |-> <<>>], str, 1)
    IN  [out |-> DecodeTail(s), loop |-> s]

-----------------------------------------------------------------------------
(* The state machine *)

\* inputs of Encode: sequences over a few byte values, every single byte, and
\* short sequences of elements wider than 8 bits
EncodeInputs ==
    BoundedSeq(ByteVals, MaxBytes) \cup BoundedSeq(0..255, 1) \cup BoundedSeq(WideVals, 2)

\* inputs of the constructor: short strings with aliases and invalid characters,
\* long strings of two digits, and every pair of canonical digits
RawStrings ==
    BoundedSeq(RawChars, MaxRaw) \cup BoundedSeq(DigitChars, MaxDigits)
        \cup BoundedSeq({Digits[i] : i \in 1..Len(Digits)}, 2)

NoDec == [tmp |-> 0, shift |-> 0, out |-> <<>>]

Init ==
    /\ hist = <<>>
    /\ bytes = <<>>
    /\ raw = <<>>
    /\ code = <<>>
    /\ thrown = FALSE
    /\ out = <<>>
    /\ dec = NoDec
    /\ recode = <<>>
    /\ arg = 0
    /\ res = 0

\* Base32Code code(input)
Construct ==
    /\ hist = <<>>
    /\ \E s \in RawStrings :
         LET r == Base32Code(s)
         IN  /\ raw' = s
             /\ code' = r.str
             /\ thrown' = ~r.ok
    /\ hist' = <<"Construct">>
    /\ UNCHANGED <<bytes, out, dec, recode, arg, res>>

\* Base32Code::Encode(input)
EncodeInput ==
    /\ hist = <<>>
    /\ \E t \in EncodeInputs :
         LET r == Encode(t)
         IN  /\ bytes' = t
             /\ code' = r.str
             /\ thrown' = ~r.ok
    /\ hist' = <<"Encode">>
    /\ UNCHANGED <<raw, out, dec, recode, arg, res>>

\* code.Decode(output.data())
DecodeCode ==
    /\ hist \in {<<"Construct">>, <<"Encode">>}
    /\ ~thrown
    /\ LET r == Decode(code)
       IN  /\ out' = r.out
           /\ dec' = r.loop
    /\ hist' = Append(hist, "Decode")
    /\ UNCHANGED <<bytes, raw, code, thrown, recode, arg, res>>

\* Base32Code::Encode(tmp).Str()
EncodeDecoded ==
    /\ hist = <<"Construct", "Decode">>
    /\ LET r == Encode(out)
       IN  /\ recode' = r.str
           /\ thrown' = ~r.ok
    /\ hist' = Append(hist, "Encode")
    /\ UNCHANGED <<bytes, raw, code, out, dec, arg, res>>

CanonicalChar ==
    /\ hist = <<>>
    /\ \E isSigned \in BOOLEAN : \E c \in CharRange(isSigned) :
         /\ arg' = c
         /\ res' = Canonical(c)
    /\ hist' = <<"Canonical">>
    /\ UNCHANGED <<bytes, raw, code, thrown, out, dec, recode>>

IsValidChar ==
    /\ hist = <<>>
    /\ \E isSigned \in BOOLEAN : \E c \in CharRange(isSigned) :
         /\ arg' = c
         /\ res' = IsValid(c)
    /\ hist' = <<"IsValid">>
    /\ UNCHANGED <<bytes, raw, code, thrown, out, dec, recode>>

ValueChar ==
    /\ hist = <<>>
    /\ \E isSigned \in BOOLEAN : \E c \in CharRange(isSigned) :
         /\ arg' = c
         /\ res' = Value(c)
    /\ hist' = <<"Value">>
    /\ UNCHANGED <<bytes, raw, code, thrown, out, dec, recode>>

\* Base32Code::Digit(v) for an int v, converted to the char parameter
DigitInt ==
    /\ hist = <<>>
    /\ \E isSigned \in BOOLEAN : \E v \in IntArgs :
         /\ arg' = v
         /\ res' = Digit(ToChar(v, isSigned))
    /\ hist' = <<"Digit">>
    /\ UNCHANGED <<bytes, raw, code, thrown, out, dec, recode>>

DecodedSizeOf ==
    /\ hist = <<>>
    /\ \E n \in 0..MaxSizeArg :
         /\ arg' = n
         /\ res' = DecodedSize(n)
    /\ hist' = <<"DecodedSize">>
    /\ UNCHANGED <<bytes, raw, code, thrown, out, dec, recode>>

Next ==
    \/ Construct
    \/ EncodeInput
    \/ DecodeCode
    \/ EncodeDecoded
    \/ CanonicalChar
    \/ IsValidChar
    \/ ValueChar
    \/ DigitInt
    \/ DecodedSizeOf

Spec == Init /\ [][Next]_vars

-----------------------------------------------------------------------------
(* Reference notions the properties are stated with *)

\* the alphabet as the specification spells it: 0123456789ABCDEFGHJKMNPQRSTVWXYZ
SpecAlphabet == <<48, 49, 50, 51, 52, 53, 54, 55, 56, 57,
                  65, 66, 67, 68, 69, 70, 71, 72, 74, 75, 77, 78,
                  80, 81, 82, 83, 84, 86, 87, 88, 89, 90>>
AlphabetSet == {SpecAlphabet[i] : i \in 1..32}
AlphaIndex(c) == CHOOSE i \in 0..31 : SpecAlphabet[i + 1] = c

\* aliases: o O (zero), i I l L (one), lower case of the alphabet letters
ZeroAliases == {111, 79}
OneAliases == {105, 73, 108, 76}
LowerAliases == {c + 32 : c \in {a \in AlphabetSet : a >= 65}}
AliasSet == ZeroAliases \cup OneAliases \cup LowerAliases
AllChars == (0 - 128)..255

ExpectedCanonical(c) ==
    IF c \in {48} \cup ZeroAliases THEN 48
    ELSE IF c \in {49} \cup OneAliases THEN 49
    ELSE IF c \in AlphabetSet THEN c
    ELSE IF c \in LowerAliases THEN c - 32
    ELSE 0

CeilDiv(a, b) == (a + b - 1) \div b

\* bit k (0-based, MSB first) of the concatenation of the w-bit values of seq;
\* zero beyond the end
BitAt(seq, w, k) ==
    IF k >= Len(seq) * w THEN 0
    ELSE (seq[(k \div w) + 1] \div Pow2(w - 1 - (k % w))) % 2

\* the value of the n bits starting at bit first
RECURSIVE BitsValue(_, _, _, _)
BitsValue(seq, w, first, n) ==
    IF n = 0 THEN 0
    ELSE BitAt(seq, w, first) * Pow2(n - 1) + BitsValue(seq, w, first + 1, n - 1)

Low8Seq(t) == [k \in DOMAIN t |-> t[k] % 256]
IsByteSeq(t) == \A k \in DOMAIN t : t[k] \in 0..255
DigitValues(str) == [k \in DOMAIN str |-> AlphaIndex(str[k])]
Zeros(p) == [k \in 1..p |-> 48]
Decoded == Len(hist) >= 2 /\ hist[2] = "Decode"
CodeZ0Z0 == <<90, 48, 90, 48>>
PadTable == <<0, 1, 2, 1, 1, 2, 1, 1>>

MatchesBitPartition(t, str) ==
    LET b == Low8Seq(t)
        n == CeilDiv(8 * Len(t), 5)
    IN  /\ Len(str) = n
        /\ \A i \in 0..(n - 1) : str[i + 1] = SpecAlphabet[BitsValue(b, 8, 5 * i, 5) + 1]

-----------------------------------------------------------------------------
(* Properties *)

\* C1 (as stated): the bytes Decode writes for Encode(b) equal b exactly, same
\* length and same bytes, and Decode of "Z0Z0" yields exactly [0xF8, 0x3E].
C1_DecodeEncodeIsIdentity ==
    /\ (hist = <<"Encode", "Decode">> /\ IsByteSeq(bytes)) => out = bytes
    /\ (Decoded /\ code = CodeZ0Z0) => out = <<248, 62>>

\* C1 (amended): the first len(b) bytes Decode writes for Encode(b) equal b, and
\* Decode writes exactly len(b) bytes only when len(b) is a multiple of 5, one
\* more otherwise; Decode of "Z0Z0" yields the three bytes [0xF8, 0x3E, 0x00].
C1_DecodeEncodePrefix ==
    /\ (hist = <<"Encode", "Decode">> /\ IsByteSeq(bytes)) =>
         LET l == Len(bytes)
         IN  /\ Len(out) = (IF l % 5 = 0 THEN l ELSE l + 1)
             /\ SubSeq(out, 1, l) = bytes
    /\ (Decoded /\ code = CodeZ0Z0) => out = <<248, 62, 0>>

C1_Witness ==
    /\ hist = <<"Encode", "Decode">>
    /\ bytes = <<248, 62>>
    /\ code = CodeZ0Z0
    /\ Len(out) = 3

\* C2: for a byte sequence b of length l, Encode(b).DecodedSize() is l when
\* (8*l) mod 5 = 0 and l+1 otherwise; the first l bytes Decode writes equal b
\* and the extra (l+1)-th byte, when there is one, is 0.
C2_RoundtripBytes ==
    (hist = <<"Encode", "Decode">> /\ IsByteSeq(bytes)) =>
        LET l == Len(bytes)
            padding == (l * 8) % 5 # 0
        IN  /\ DecodedSize(Len(code)) = (IF padding THEN l + 1 ELSE l)
            /\ Len(out) = DecodedSize(Len(code))
            /\ \A k \in 1..l : out[k] = bytes[k]
            /\ padding => out[l + 1] = 0

C2_Witness ==
    /\ hist = <<"Encode", "Decode">>
    /\ bytes = <<255, 62, 248>>
    /\ out = <<255, 62, 248, 0>>

\* C3: for a Code c of n digits, Encode of the bytes c.Decode writes is c.Str()
\* followed by exactly p characters '0', p = ceil((8*DecodedSize(n) - 5*n) / 5);
\* p depends only on n mod 8 and is 0 when n is a multiple of 8.
C3_RoundtripChars ==
    hist = <<"Construct", "Decode", "Encode">> =>
        LET n == Len(code)
            p == CeilDiv(8 * DecodedSize(n) - 5 * n, 5)
        IN  /\ ~thrown
            /\ Len(out) = DecodedSize(n)
            /\ recode = code \o Zeros(p)
            /\ p = PadTable[(n % 8) + 1]

C3_Witness ==
    /\ hist = <<"Construct", "Decode", "Encode">>
    /\ Len(code) = 9
    /\ code[9] = 90
    /\ recode = code \o <<48>>

\* C4: Encode never raises and returns ceil(8*l/5) digits, the i-th being the
\* alphabet character of bits 5i..5i+4 of the MSB-first bit string of the input
\* (each element taken as its lowest 8 bits), zero-extended at the end; the
\* empty input gives the empty Code.
C4_EncodeBitPartition ==
    /\ hist = <<"Encode">> =>
         /\ ~thrown
         /\ MatchesBitPartition(bytes, code)
         /\ bytes = <<>> => code = <<>>
    /\ hist = <<"Construct", "Decode", "Encode">> =>
         /\ ~thrown
         /\ MatchesBitPartition(out, recode)

C4_Witness ==
    /\ hist = <<"Encode">>
    /\ bytes = <<248, 62, 255, 0>>
    /\ code = <<90, 48, 90, 70, 89, 48, 48>>

\* C5: Decode of a Code of n digits writes exactly DecodedSize(n) = ceil(5*n/8)
\* bytes, the j-th being bits 8j..8j+7 of the bit string of the digits' 5-bit
\* values, zero-extended at the end.
C5_DecodeBitRepartition ==
    /\ Decoded =>
         LET n == Len(code)
             v == DigitValues(code)
         IN  /\ Len(out) = DecodedSize(n)
             /\ DecodedSize(n) = CeilDiv(5 * n, 8)
             /\ \A j \in 0..(Len(out) - 1) : out[j + 1] = BitsValue(v, 5, 8 * j, 8)
    /\ hist = <<"DecodedSize">> => res = CeilDiv(5 * arg, 8)

C5_Witness ==
    /\ hist = <<"Construct", "Decode">>
    /\ code = <<90, 48, 90>>
    /\ out = <<248, 62>>

\* C6: Base32Code(raw) throws exactly when some character of raw has no
\* canonical form; otherwise Str() has raw's length and holds the canonical
\* form of each character, every character of a Code is an alphabet character,
\* and the empty string gives a Code of size 0.
C6_Construction ==
    /\ hist = <<"Construct">> =>
         /\ thrown <=> (\E k \in DOMAIN raw : Canonical(raw[k]) = InvalidDigit)
         /\ ~thrown =>
              /\ Len(code) = Len(raw)
              /\ \A k \in DOMAIN raw : code[k] = Canonical(raw[k])
         /\ raw = <<>> => (~thrown /\ Len(code) = 0)
    /\ \A k \in DOMAIN code : code[k] \in AlphabetSet
    /\ \A k \in DOMAIN recode : recode[k] \in AlphabetSet

C6_Witness ==
    /\ hist = <<"Construct">>
    /\ raw = <<111, 97, 76, 90>>
    /\ ~thrown
    /\ code = <<48, 65, 49, 90>>

\* C7: Canonical maps '0','o','O' to '0', '1','i','I','l','L' to '1', every other
\* alphabet character to itself, the lower case of an alphabet letter to the
\* letter, and every other char value to the null sentinel; IsValid(c) holds
\* exactly when Canonical(c) is not the sentinel, for 32 + 28 valid values.
C7_CanonicalTable ==
    /\ hist = <<"Canonical">> => res = ExpectedCanonical(arg)
    /\ hist = <<"IsValid">> =>
         /\ res = (Canonical(arg) # InvalidDigit)
         /\ res = (arg \in AlphabetSet \cup AliasSet)
         /\ Cardinality({c \in AllChars : IsValid(c)}) = 32 + 28
         /\ AlphabetSet \cap AliasSet = {}

C7_Witness ==
    /\ hist = <<"Canonical">>
    /\ arg = 118
    /\ res = 86

\* C8: Value(Digits[i]) = i and Digit(i) = Digits[i] for i in 0..31, Digits being
\* "0123456789ABCDEFGHJKMNPQRSTVWXYZ"; Value of a valid alias is the Value of its
\* canonical form ('o','O' give 0, 'i','I','l','L' give 1); Value of an invalid
\* character is -1.
C8_ValueDigitInverse ==
    /\ Digits = SpecAlphabet
    /\ hist = <<"Value">> =>
         /\ arg \in AlphabetSet => (res = AlphaIndex(arg) /\ Digit(res) = arg)
         /\ arg \in AliasSet => res = Value(Canonical(arg))
         /\ arg \in ZeroAliases => res = 0
         /\ arg \in OneAliases => res = 1
         /\ arg \in LowerAliases => res = AlphaIndex(arg - 32)
         /\ arg \notin AlphabetSet \cup AliasSet => res = 0 - 1
    /\ (hist = <<"Digit">> /\ arg \in 0..31) =>
         (res = SpecAlphabet[arg + 1] /\ Value(res) = arg)

C8_Witness ==
    /\ hist = <<"Value">>
    /\ arg = 108
    /\ res = 1

\* C9: Digit returns the alphabet character at position value exactly when
\* 0 <= value < 32 and the null sentinel for every other integer value,
\* integers above the range of an 8-bit char included.
C9_DigitRangeCheck ==
    hist = <<"Digit">> =>
        res = (IF 0 <= arg /\ arg < 32 THEN SpecAlphabet[arg + 1] ELSE 0)

\* C10 (as stated): when Decode has processed all digits, the buffered bits
\* not yet emitted number 0 or between 1 and 4; when non-zero exactly one final
\* byte is emitted, holding them in its high positions with zero bits below.
C10_LeftoverAtMostFour ==
    Decoded =>
        /\ dec.shift \in 0..4
        /\ dec.shift = 0 => out = dec.out
        /\ dec.shift > 0 =>
             out = Append(dec.out,
                          BitsValue(DigitValues(code), 5, 5 * Len(code) - dec.shift, dec.shift)
                              * Pow2(8 - dec.shift))

\* C10 (amended): the buffered bits number 0 or between 1 and 7 (5*n mod 8);
\* when non-zero exactly one final byte is emitted, holding them in its high
\* positions with zero bits below.
C10_LeftoverAtMostSeven ==
    Decoded =>
        /\ dec.shift \in 0..7
        /\ dec.shift = (5 * Len(code)) % 8
        /\ dec.shift = 0 => out = dec.out
        /\ dec.shift > 0 =>
             out = Append(dec.out,
                          BitsValue(DigitValues(code), 5, 5 * Len(code) - dec.shift, dec.shift)
                              * Pow2(8 - dec.shift))

C10_Witness ==
    /\ hist = <<"Construct", "Decode">>
    /\ code = <<48, 90, 90>>
    /\ dec.shift = 7
    /\ out = <<7, 254>>

====
